---- MODULE Spec2Model ----
(***************************************************************************)
(* CORS middleware of gorilla/handlers: the policy built by the functional *)
(* options, and the decision procedure of the cors ServeHTTP method.       *)
(*                                                                         *)
(* Strings on which the code does character work (methods, header names,   *)
(* header lists) are sequences of one-character strings, so that           *)
(* strings.TrimSpace, strings.ToUpper, strings.Split, strings.Join and     *)
(* http.CanonicalHeaderKey are computed and not assumed.  Origins are only *)
(* compared for equality and are kept as atomic strings.                   *)
(***************************************************************************)
EXTENDS Integers, Sequences, FiniteSets, TLC

\* ------------------------------------------------------------------------
\* Bounds of the model
\* ------------------------------------------------------------------------

\* Number of options handed to CORS(opts...).
MaxOpts == 2

\* Number of times the middleware returned by CORS is applied to a handler.
MaxApply == 2

\* Requests one engine handles at the same time
MaxInflight == 2

\* ------------------------------------------------------------------------
\* Character helpers
\* ------------------------------------------------------------------------

Lowers == <<"a","b","c","d","e","f","g","h","i","j","k","l","m",
            "n","o","p","q","r","s","t","u","v","w","x","y","z">>

Uppers == <<"A","B","C","D","E","F","G","H","I","J","K","L","M",
            "N","O","P","Q","R","S","T","U","V","W","X","Y","Z">>

IsLower(c) == \E i \in 1..26 : Lowers[i] = c

IsUpper(c) == \E i \in 1..26 : Uppers[i] = c

UpperCh(c) == IF IsLower(c) THEN Uppers[CHOOSE i \in 1..26 : Lowers[i] = c] ELSE c

LowerCh(c) == IF IsUpper(c) THEN Lowers[CHOOSE i \in 1..26 : Uppers[i] = c] ELSE c

IsSpace(c) == c \in {" ", "\t"}

\* Bytes net/textproto accepts in a header field name (those of the alphabet used here).
IsTokenCh(c) == IsLower(c) \/ IsUpper(c) \/ c = "-"

\* ------------------------------------------------------------------------
\* String functions of the Go library, as the code calls them
\* ------------------------------------------------------------------------

\* strings.TrimSpace
TrimSpace(s) ==
    LET keep == {i \in 1..Len(s) : ~IsSpace(s[i])}
    IN IF keep = {} THEN <<>>
       ELSE LET lo == CHOOSE i \in keep : \A j \in keep : i <= j
                hi == CHOOSE i \in keep : \A j \in keep : j <= i
            IN SubSeq(s, lo, hi)

\* strings.ToUpper
ToUpper(s) == [i \in 1..Len(s) |-> UpperCh(s[i])]

\* http.CanonicalHeaderKey: a name with a byte that is not a token byte is
\* returned unchanged; otherwise the first letter and every letter after a
\* hyphen is upper-cased and every other letter lower-cased.
CanonicalHeaderKey(s) ==
    IF \E i \in 1..Len(s) : ~IsTokenCh(s[i]) THEN s
    ELSE [i \in 1..Len(s) |->
            IF i = 1 \/ s[i-1] = "-" THEN UpperCh(s[i]) ELSE LowerCh(s[i])]

\* strings.Split(s, ","): Split of the empty string is one empty field.
RECURSIVE Split(_)
Split(s) ==
    LET commas == {i \in 1..Len(s) : s[i] = ","}
    IN IF commas = {} THEN <<s>>
       ELSE LET k == CHOOSE i \in commas : \A j \in commas : i <= j
            IN <<SubSeq(s, 1, k-1)>> \o Split(SubSeq(s, k+1, Len(s)))

\* strings.Join(list, ",")
RECURSIVE Join(_)
Join(list) ==
    IF Len(list) = 0 THEN <<>>
    ELSE IF Len(list) = 1 THEN list[1]
    ELSE list[1] \o <<",">> \o Join(Tail(list))


\* strconv.Itoa, for the positive values the code formats
Digits == <<"0","1","2","3","4","5","6","7","8","9">>

RECURSIVE Itoa(_)
Itoa(n) == IF n < 10 THEN <<Digits[n+1]>> ELSE Itoa(n \div 10) \o <<Digits[(n % 10) + 1]>>

\* ------------------------------------------------------------------------
\* String literals of the code, the tests and the inputs
\* ------------------------------------------------------------------------

sGET == <<"G","E","T">>

sHEAD == <<"H","E","A","D">>

sPOST == <<"P","O","S","T">>

sDELETE == <<"D","E","L","E","T","E">>

sPUT == <<"P","U","T">>

sAccept == <<"A","c","c","e","p","t">>

sAcceptLanguage == <<"A","c","c","e","p","t","-","L","a","n","g","u","a","g","e">>

sContentLanguage == <<"C","o","n","t","e","n","t","-","L","a","n","g","u","a","g","e">>

sContentType == <<"C","o","n","t","e","n","t","-","T","y","p","e">>

sXA == <<"X","-","A">>

sXCorsTest == <<"X","-","C","o","r","s","-","T","e","s","t">>

rawDelete == <<"d","e","l","e","t","e">>

rawPut == <<" ","P","u","t"," ">>

rawGet == <<"g","e","t">>

rawContentType == <<"c","o","n","t","e","n","t","-","t","y","p","e">>

rawXA == <<" ","x","-","a">>

rawAccept == <<"a","c","c","e","p","t">>

rawXB == <<"x","-","b">>

rawXCORSTEST == <<"X","-","C","O","R","S","-","T","E","S","T">>

rawXa == <<"X","-","a">>

sTrue == <<"t","r","u","e">>

\* const block of the cors file
corsOptionMethod == <<"O","P","T","I","O","N","S">>

corsAllowOriginHeader == "Access-Control-Allow-Origin"

corsExposeHeadersHeader == "Access-Control-Expose-Headers"

corsMaxAgeHeader == "Access-Control-Max-Age"

corsAllowMethodsHeader == "Access-Control-Allow-Methods"

corsAllowHeadersHeader == "Access-Control-Allow-Headers"

corsAllowCredentialsHeader == "Access-Control-Allow-Credentials"

corsVaryHeader == "Vary"

corsOriginHeader == <<"O","r","i","g","i","n">>

corsOriginMatchAll == "*"

defaultCorsMethods == <<sGET, sHEAD, sPOST>>

defaultCorsHeaders == <<sAccept, sAcceptLanguage, sContentLanguage>>

\* net/http status codes the engine and the test handlers write
StatusOK == 200

StatusBadRequest == 400

StatusForbidden == 403

StatusMethodNotAllowed == 405

StatusTeapot == 418

\* Origins used in requests and policies
OriginA == "http://a.example.com"

OriginB == "http://b.example.com"

OriginC == "http://c.example.com"

\* ------------------------------------------------------------------------
\* Wrapped handlers and the response writer
\* ------------------------------------------------------------------------

\* The handlers the tests wrap: h1 does nothing, h2 writes 418.
Handlers == {"h1", "h2"}

\* The empty http.HandlerFunc that replaces the wrapped handler on a preflight.
NoopHandler == "noop"

HandlerStatus(h) == IF h = "h2" THEN StatusTeapot ELSE 0

NoHeaders == [n \in {} |-> <<>>]

\* httptest.NewRecorder(): code 200, no header
NewRecorder == [code |-> StatusOK, writes |-> 0, header |-> NoHeaders]

\* ResponseWriter.WriteHeader: the first status written is the response status
WriteHeader(w, c) ==
    [w EXCEPT !.code = IF w.writes = 0 THEN c ELSE @, !.writes = @ + 1]

\* w.Header().Set(k, v)
HeaderSet(w, k, v) ==
    [w EXCEPT !.header =
        [n \in (DOMAIN w.header) \cup {k} |-> IF n = k THEN v ELSE w.header[n]]]

\* Variant of Invoke in which the handler runs twice
Invoke_twice(h, w) ==
    [w     |-> IF HandlerStatus(h) # 0 THEN WriteHeader(w, HandlerStatus(h)) ELSE w,
     calls |-> <<h, h>>]

\* handler.ServeHTTP(w, r) of the deferred call: the outcome of a request is
\* the response and the list of handlers that ran.
Invoke(h, w) ==
    [w     |-> IF HandlerStatus(h) # 0 THEN WriteHeader(w, HandlerStatus(h)) ELSE w,
     calls |-> <<h>>]

\* ------------------------------------------------------------------------
\* The policy: struct cors and its functional options
\* ------------------------------------------------------------------------

\* Variant of isMatch that returns inside the first iteration
isMatch_firstIteration(needle, haystack) == Len(haystack) > 0

isMatch(needle, haystack) == \E i \in 1..Len(haystack) : haystack[i] = needle

\* Variant of isOriginAllowed without the test for the empty origin
isOriginAllowed_noEmptyTest(c, origin) ==
    \E i \in 1..Len(c.allowedOrigins) :
        c.allowedOrigins[i] = origin \/ c.allowedOrigins[i] = corsOriginMatchAll

isOriginAllowed(c, origin) ==
    IF origin = "" THEN FALSE
    ELSE \E i \in 1..Len(c.allowedOrigins) :
            c.allowedOrigins[i] = origin \/ c.allowedOrigins[i] = corsOriginMatchAll

\* parseCORSOptions: the struct before any option is applied
parseCORSOptions ==
    [h                |-> "nil",
     allowedHeaders   |-> defaultCorsHeaders,
     allowedMethods   |-> defaultCorsMethods,
     allowedOrigins   |-> <<corsOriginMatchAll>>,
     exposedHeaders   |-> <<>>,
     maxAge           |-> 0,
     ignoreOptions    |-> FALSE,
     allowCredentials |-> FALSE]

RECURSIVE AllowedHeaders(_, _)
AllowedHeaders(c, headers) ==
    IF headers = <<>> THEN c
    ELSE LET normalizedHeader == CanonicalHeaderKey(TrimSpace(Head(headers)))
         IN IF normalizedHeader = <<>> THEN AllowedHeaders(c, Tail(headers))
            ELSE IF ~isMatch(normalizedHeader, c.allowedHeaders)
                 THEN AllowedHeaders(
                        [c EXCEPT !.allowedHeaders = Append(@, normalizedHeader)],
                        Tail(headers))
                 ELSE AllowedHeaders(c, Tail(headers))

\* The loop tests the method against allowedMethods and appends it to
\* allowedHeaders.
RECURSIVE AllowedMethods(_, _)
AllowedMethods(c, methods) ==
    IF methods = <<>> THEN c
    ELSE LET normalizedMethod == ToUpper(TrimSpace(Head(methods)))
         IN IF normalizedMethod = <<>> THEN AllowedMethods(c, Tail(methods))
            ELSE IF ~isMatch(normalizedMethod, c.allowedMethods)
                 THEN AllowedMethods(
                        [c EXCEPT !.allowedHeaders = Append(@, normalizedMethod)],
                        Tail(methods))
                 ELSE AllowedMethods(c, Tail(methods))

\* Variant of AllowedOrigins that stores the list it is given
AllowedOrigins_noCollapse(c, origins) == [c EXCEPT !.allowedOrigins = origins]

AllowedOrigins(c, origins) ==
    IF \E i \in 1..Len(origins) : origins[i] = corsOriginMatchAll
    THEN [c EXCEPT !.allowedOrigins = <<corsOriginMatchAll>>]
    ELSE [c EXCEPT !.allowedOrigins = origins]

ExposedHeaders(c, headers) == [c EXCEPT !.exposedHeaders = headers]

\* Variant of MaxAge without the ceiling
MaxAge_noClamp(c, age) == [c EXCEPT !.maxAge = age]

MaxAge(c, age) == [c EXCEPT !.maxAge = IF age > 600 THEN 600 ELSE age]

IgnoreOptions(c) == [c EXCEPT !.ignoreOptions = TRUE]

\* Variant of AllowCredentials that leaves the flag alone
AllowCredentials_noop(c) == c

AllowCredentials(c) == [c EXCEPT !.allowCredentials = TRUE]

\* ------------------------------------------------------------------------
\* The engine: ServeHTTP of the cors struct
\* ------------------------------------------------------------------------

\* Variant of hasRequestMethod that does not look the header up
hasRequestMethod_unchecked(r) == TRUE

\* _, ok := r.Header[corsRequestMethodHeader]
hasRequestMethod(r) == r.hasReqMethod

\* Variant of preflightHandler that keeps the wrapped handler
preflightHandler_wrapped(c) == c.h

\* handler = http.HandlerFunc(func(...) { return }) on an intercepted OPTIONS
preflightHandler(c) == NoopHandler

\* Variant of checkHeaders that skips a header that is not allowed
RECURSIVE checkHeaders_skip(_, _, _)
checkHeaders_skip(c, requestHeaders, allowedHeaders) ==
    IF requestHeaders = <<>> THEN [forbidden |-> FALSE, allowedHeaders |-> allowedHeaders]
    ELSE LET canonicalHeader == CanonicalHeaderKey(TrimSpace(Head(requestHeaders)))
         IN IF canonicalHeader = <<>> \/ isMatch(canonicalHeader, defaultCorsHeaders)
               \/ ~isMatch(canonicalHeader, c.allowedHeaders)
            THEN checkHeaders_skip(c, Tail(requestHeaders), allowedHeaders)
            ELSE checkHeaders_skip(c, Tail(requestHeaders),
                                   Append(allowedHeaders, canonicalHeader))

\* Variant of checkHeaders that collects the names as they were sent
RECURSIVE checkHeaders_raw(_, _, _)
checkHeaders_raw(c, requestHeaders, allowedHeaders) ==
    IF requestHeaders = <<>> THEN [forbidden |-> FALSE, allowedHeaders |-> allowedHeaders]
    ELSE LET canonicalHeader == CanonicalHeaderKey(TrimSpace(Head(requestHeaders)))
         IN IF canonicalHeader = <<>> \/ isMatch(canonicalHeader, defaultCorsHeaders)
            THEN checkHeaders_raw(c, Tail(requestHeaders), allowedHeaders)
            ELSE IF ~isMatch(canonicalHeader, c.allowedHeaders)
                 THEN [forbidden |-> TRUE, allowedHeaders |-> allowedHeaders]
                 ELSE checkHeaders_raw(c, Tail(requestHeaders),
                                       Append(allowedHeaders, TrimSpace(Head(requestHeaders))))

\* The loop over the requested headers: forbidden at the first header that is
\* neither safelisted nor allowed, otherwise the canonical names collected in
\* request order.
RECURSIVE checkHeaders(_, _, _)
checkHeaders(c, requestHeaders, allowedHeaders) ==
    IF requestHeaders = <<>> THEN [forbidden |-> FALSE, allowedHeaders |-> allowedHeaders]
    ELSE LET canonicalHeader == CanonicalHeaderKey(TrimSpace(Head(requestHeaders)))
         IN IF canonicalHeader = <<>> \/ isMatch(canonicalHeader, defaultCorsHeaders)
            THEN checkHeaders(c, Tail(requestHeaders), allowedHeaders)
            ELSE IF ~isMatch(canonicalHeader, c.allowedHeaders)
                 THEN [forbidden |-> TRUE, allowedHeaders |-> allowedHeaders]
                 ELSE checkHeaders(c, Tail(requestHeaders),
                                   Append(allowedHeaders, canonicalHeader))

\* if len(allowedHeaders) > 0 { Set(Access-Control-Allow-Headers, Join) }
setAllowHeaders(w, allowedHeaders) ==
    IF Len(allowedHeaders) > 0
    THEN HeaderSet(w, corsAllowHeadersHeader, Join(allowedHeaders))
    ELSE w

\* if ch.maxAge > 0 { Set(Access-Control-Max-Age, Itoa(maxAge)) }
setMaxAge(c, w) ==
    IF c.maxAge > 0 THEN HeaderSet(w, corsMaxAgeHeader, Itoa(c.maxAge)) ELSE w

\* Variant of setAllowMethods without the safelist test
setAllowMethods_always(w, method) == HeaderSet(w, corsAllowMethodsHeader, method)

\* if !isMatch(method, defaultCorsMethods) { Set(Access-Control-Allow-Methods, method) }
setAllowMethods(w, method) ==
    IF ~isMatch(method, defaultCorsMethods)
    THEN HeaderSet(w, corsAllowMethodsHeader, method)
    ELSE w

\* Variant of setExposeHeaders that emits only the first configured name
setExposeHeaders_first(c, w) ==
    IF Len(c.exposedHeaders) > 0
    THEN HeaderSet(w, corsExposeHeadersHeader, c.exposedHeaders[1])
    ELSE w

\* if len(ch.exposedHeaders) > 0 { Set(Access-Control-Expose-Headers, Join) }
setExposeHeaders(c, w) ==
    IF Len(c.exposedHeaders) > 0
    THEN HeaderSet(w, corsExposeHeadersHeader, Join(c.exposedHeaders))
    ELSE w

\* Variant of commonHeaders with the Vary test off by one
commonHeaders_varyOnOne(c, w, origin) ==
    LET w1 == IF c.allowCredentials
              THEN HeaderSet(w, corsAllowCredentialsHeader, sTrue) ELSE w
        w2 == IF Len(c.allowedOrigins) > 0
              THEN HeaderSet(w1, corsVaryHeader, corsOriginHeader) ELSE w1
    IN HeaderSet(w2, corsAllowOriginHeader, origin)

\* The tail of ServeHTTP: credentials, Vary and Allow-Origin
commonHeaders(c, w, origin) ==
    LET w1 == IF c.allowCredentials
              THEN HeaderSet(w, corsAllowCredentialsHeader, sTrue) ELSE w
        w2 == IF Len(c.allowedOrigins) > 1
              THEN HeaderSet(w1, corsVaryHeader, corsOriginHeader) ELSE w1
    IN HeaderSet(w2, corsAllowOriginHeader, origin)

\* The OPTIONS branch when OPTIONS is not ignored.  Every return runs the
\* deferred handler, which is the empty handler here.
preflight(c, r, w) ==
    IF ~hasRequestMethod(r)
    THEN Invoke(preflightHandler(c), WriteHeader(w, StatusBadRequest))
    ELSE LET method == r.reqMethod
         IN IF ~isMatch(method, c.allowedMethods)
            THEN Invoke(preflightHandler(c), WriteHeader(w, StatusMethodNotAllowed))
            ELSE LET res == checkHeaders(c, Split(r.reqHeaders), <<>>)
                 IN IF res.forbidden
                    THEN Invoke(preflightHandler(c), WriteHeader(w, StatusForbidden))
                    ELSE Invoke(preflightHandler(c),
                           commonHeaders(c,
                             setAllowMethods(
                               setMaxAge(c, setAllowHeaders(w, res.allowedHeaders)),
                               method),
                             r.origin))

\* Variant of ServeHTTP that treats an ignored OPTIONS as a simple request
ServeHTTP_ignoredAsSimple(c, r, w) ==
    IF ~isOriginAllowed(c, r.origin)
    THEN [w |-> WriteHeader(w, StatusBadRequest), calls |-> <<>>]
    ELSE IF r.method = corsOptionMethod /\ ~c.ignoreOptions
         THEN preflight(c, r, w)
         ELSE Invoke(c.h, commonHeaders(c, setExposeHeaders(c, w), r.origin))

\* The whole method.  A rejected origin returns before the defer is
\* registered, so no handler runs.
ServeHTTP(c, r, w) ==
    IF ~isOriginAllowed(c, r.origin)
    THEN [w |-> WriteHeader(w, StatusBadRequest), calls |-> <<>>]
    ELSE IF r.method = corsOptionMethod
         THEN IF c.ignoreOptions
              THEN Invoke(c.h, w)
              ELSE preflight(c, r, w)
         ELSE Invoke(c.h, commonHeaders(c, setExposeHeaders(c, w), r.origin))

\* ------------------------------------------------------------------------
\* Inputs
\* ------------------------------------------------------------------------

AllowedHeadersArgs == { <<rawContentType>>, <<rawXA, rawAccept, <<>>, rawXa>> }

AllowedMethodsArgs == { <<rawDelete>>, <<rawPut, rawGet, <<>>>> }

AllowedOriginsArgs == { <<>>, <<OriginA>>, <<OriginA, OriginB>>, <<OriginA, corsOriginMatchAll>> }

ExposedHeadersArgs == { <<rawXCORSTEST, sXA>> }

MaxAgeArgs == { -1, 30, 3500 }

ReqMethods == { sGET, sDELETE, corsOptionMethod }

\* A client may send any Origin value, the literal "*" included
ReqOrigins == { "", OriginA, OriginC, corsOriginMatchAll }

\* Values of Access-Control-Request-Method
ReqMethodValues == { sGET, sDELETE }

\* Values of Access-Control-Request-Headers (the empty one is also the absent header)
ReqHeaderValues ==
    { <<>>,
      rawAccept,
      rawContentType,
      rawXA \o <<",">> \o sAcceptLanguage \o <<","," ">> \o rawContentType,
      rawXB \o <<",">> \o rawContentType,
      rawContentType \o <<","," ">> \o rawXB }

Requests ==
    { r \in [method : ReqMethods, origin : ReqOrigins, hasReqMethod : BOOLEAN,
             reqMethod : ReqMethodValues \cup {<<>>}, reqHeaders : ReqHeaderValues] :
        /\ r.hasReqMethod <=> (r.reqMethod # <<>>)
        /\ \/ r.method = corsOptionMethod
           \/ ~r.hasReqMethod /\ r.reqHeaders = <<>>
           \/ r.method = sGET /\ r.reqMethod = sDELETE /\ r.reqHeaders = rawContentType
        /\ r.origin = corsOriginMatchAll => r.reqHeaders = <<>> }

\* Requests sent through a handler that an earlier application returned
EarlierHandlerRequests == { r \in Requests : ~r.hasReqMethod /\ r.reqHeaders = <<>> }

NoRequest ==
    [method |-> <<>>, origin |-> "", hasReqMethod |-> FALSE,
     reqMethod |-> <<>>, reqHeaders |-> <<>>]

\* ------------------------------------------------------------------------
\* State
\* ------------------------------------------------------------------------

VARIABLES
    ch,       \* the cors struct that CORS(opts...) builds and its closure shares
    nopts,    \* number of options parseCORSOptions has applied
    given,    \* the options it has applied (name and argument)
    built,    \* CORS(opts...) has returned the middleware
    applied,  \* handlers the middleware was applied to, in order
    lastOrigins, \* the argument of the latest AllowedOrigins option, if any
    via,      \* the application whose returned handler serves req
    req,      \* the request being served
    w,        \* its response writer
    calls,    \* handlers that ran for it
    served,   \* ServeHTTP has returned for req
    inflight, \* the requests being handled at the same time, one per goroutine
    optionStatusCode, \* the status OptionStatusCode configured for preflights
    compressed,       \* the last run of compressHandler.ServeHTTP
    corsHandled       \* the last run of CORSHandler.ServeHTTP

\* The state of the functional-options engine served one request at a time
engineVars == <<ch, nopts, given, built, applied, lastOrigins, via, req, w, calls, served>>

\* The state of the other runs of the program
sideVars == <<inflight, optionStatusCode, compressed, corsHandled>>

vars == <<engineVars, sideVars>>

\* A goroutine slot with no request
Idle == [pc |-> "idle"]

NoRun == [ran |-> FALSE]

SideInit ==
    /\ inflight = [i \in 1..MaxInflight |-> Idle]
    /\ optionStatusCode = StatusOK
    /\ compressed = NoRun
    /\ corsHandled = NoRun

Init ==
    /\ ch = parseCORSOptions
    /\ nopts = 0
    /\ given = {}
    /\ built = FALSE
    /\ applied = <<>>
    /\ lastOrigins = {}
    /\ via = 0
    /\ req = NoRequest
    /\ w = NewRecorder
    /\ calls = <<>>
    /\ served = FALSE
    /\ SideInit

\* option(ch) in the loop of parseCORSOptions
Option(name, arg, c) ==
    /\ ~built
    /\ nopts < MaxOpts
    /\ ch' = c
    /\ nopts' = nopts + 1
    /\ given' = given \cup {[name |-> name, arg |-> arg]}
    /\ lastOrigins' = IF name = "AllowedOrigins" THEN {arg} ELSE lastOrigins
    /\ UNCHANGED <<built, applied, via, req, w, calls, served>>
    /\ UNCHANGED sideVars

OptAllowedHeaders ==
    \E a \in AllowedHeadersArgs : Option("AllowedHeaders", a, AllowedHeaders(ch, a))

OptAllowedMethods ==
    \E a \in AllowedMethodsArgs : Option("AllowedMethods", a, AllowedMethods(ch, a))

OptAllowedOrigins ==
    \E a \in AllowedOriginsArgs : Option("AllowedOrigins", a, AllowedOrigins(ch, a))

OptExposedHeaders ==
    \E a \in ExposedHeadersArgs : Option("ExposedHeaders", a, ExposedHeaders(ch, a))

OptMaxAge == \E a \in MaxAgeArgs : Option("MaxAge", a, MaxAge(ch, a))

OptIgnoreOptions == Option("IgnoreOptions", <<>>, IgnoreOptions(ch))

OptAllowCredentials == Option("AllowCredentials", <<>>, AllowCredentials(ch))

\* CORS(opts...) returns the closure over ch
CORS ==
    /\ ~built
    /\ built' = TRUE
    /\ UNCHANGED <<ch, nopts, given, applied, lastOrigins, via, req, w, calls, served>>
    /\ UNCHANGED sideVars

\* The closure: ch.h = h; return ch.  Applications happen between requests.
Apply ==
    /\ built
    /\ ~served
    /\ Len(applied) < MaxApply
    /\ \E h \in Handlers :
        /\ ch' = [ch EXCEPT !.h = h]
        /\ applied' = Append(applied, h)
    /\ UNCHANGED <<nopts, given, built, lastOrigins, via, req, w, calls, served>>
    /\ UNCHANGED sideVars

\* One request through a handler the middleware returned.  Every
\* application returns the same pointer ch, so whichever returned handler
\* is used, the request is served by ch as it is now.
Serve ==
    /\ built
    /\ applied # <<>>
    /\ ~served
    /\ \E v \in 1..Len(applied) : \E r \in Requests :
        /\ v = Len(applied) \/ r \in EarlierHandlerRequests
        /\ LET out == ServeHTTP(ch, r, w)
           IN /\ req' = r
              /\ w' = out.w
              /\ calls' = out.calls
        /\ via' = v
    /\ served' = TRUE
    /\ UNCHANGED <<ch, nopts, given, built, applied, lastOrigins>>
    /\ UNCHANGED sideVars

\* The transport hands the next request a fresh response writer
NextRequest ==
    /\ served
    /\ req' = NoRequest
    /\ w' = NewRecorder
    /\ calls' = <<>>
    /\ served' = FALSE
    /\ via' = 0
    /\ UNCHANGED <<ch, nopts, given, built, applied, lastOrigins>>
    /\ UNCHANGED sideVars

Next ==
    \/ OptAllowedHeaders
    \/ OptAllowedMethods
    \/ OptAllowedOrigins
    \/ OptExposedHeaders
    \/ OptMaxAge
    \/ OptIgnoreOptions
    \/ OptAllowCredentials
    \/ CORS
    \/ Apply
    \/ Serve
    \/ NextRequest

Spec == Init /\ [][Next]_vars

\* ------------------------------------------------------------------------
\* Concurrent requests: net/http runs ServeHTTP of the one cors value in a
\* goroutine per request
\* ------------------------------------------------------------------------

\* A policy as parseCORSOptions leaves it after the options of a CORS(...)
\* call, with the record of those options
Setup(c, opts, origins) ==
    [ch |-> c, given |-> opts, nopts |-> Cardinality(opts), lastOrigins |-> origins]

ConcSetups ==
    { Setup(parseCORSOptions, {}, {}),
      Setup(AllowedOrigins(parseCORSOptions, <<OriginA, OriginB>>),
            { [name |-> "AllowedOrigins", arg |-> <<OriginA, OriginB>>] },
            { <<OriginA, OriginB>> }),
      Setup(AllowCredentials(IgnoreOptions(parseCORSOptions)),
            { [name |-> "IgnoreOptions", arg |-> <<>>],
              [name |-> "AllowCredentials", arg |-> <<>>] },
            {}),
      Setup(MaxAge(AllowedHeaders(parseCORSOptions, <<rawContentType>>), 30),
            { [name |-> "AllowedHeaders", arg |-> <<rawContentType>>],
              [name |-> "MaxAge", arg |-> 30] },
            {}) }

ConcRequests ==
    { r \in Requests :
        /\ r.origin \in { OriginA, OriginC }
        /\ r.reqMethod \in { <<>>, sGET }
        /\ r.reqHeaders \in { <<>>, rawContentType } }

\* Variant of policyAfterServe in which the OPTIONS branch stores the empty
\* handler in ch.h instead of the local variable
policyAfterServe_sharedHandler(c, r) ==
    IF r.method = corsOptionMethod /\ ~c.ignoreOptions
    THEN [c EXCEPT !.h = NoopHandler]
    ELSE c

\* The cors value after the body of ServeHTTP: handler := ch.h copies the
\* handler into a local, and the OPTIONS branch assigns the local; no field
\* of ch is assigned.
policyAfterServe(c, r) == c

\* The origin test that opens ServeHTTP
originStep(c, r, rw) ==
    IF ~isOriginAllowed(c, r.origin)
    THEN [pc |-> "done", w |-> WriteHeader(rw, StatusBadRequest), calls |-> <<>>]
    ELSE [pc |-> "body", w |-> rw, calls |-> <<>>]

\* ServeHTTP after the origin test, the deferred handler call included
bodyStep(c, r, rw) ==
    IF r.method = corsOptionMethod
    THEN IF c.ignoreOptions
         THEN Invoke(c.h, rw)
         ELSE preflight(c, r, rw)
    ELSE Invoke(c.h, commonHeaders(c, setExposeHeaders(c, rw), r.origin))

ConcInit ==
    /\ \E s \in ConcSetups : \E h \in Handlers :
        /\ ch = [s.ch EXCEPT !.h = h]
        /\ nopts = s.nopts
        /\ given = s.given
        /\ lastOrigins = s.lastOrigins
        /\ applied = <<h>>
    /\ built = TRUE
    /\ via = 0
    /\ req = NoRequest
    /\ w = NewRecorder
    /\ calls = <<>>
    /\ served = FALSE
    /\ SideInit

ConcFrame ==
    UNCHANGED <<nopts, given, built, applied, lastOrigins, via, req, w, calls,
                served, optionStatusCode, compressed, corsHandled>>

\* The server starts a goroutine for a request, with a response writer of
\* its own.  policy0 remembers the policy at that moment.
Begin(i) ==
    /\ inflight[i].pc = "idle"
    /\ \E r \in ConcRequests :
        inflight' = [inflight EXCEPT ![i] =
            [pc |-> "origin", req |-> r, w |-> NewRecorder, calls |-> <<>>,
             policy0 |-> ch]]
    /\ UNCHANGED ch
    /\ ConcFrame

StepOrigin(i) ==
    /\ inflight[i].pc = "origin"
    /\ LET out == originStep(ch, inflight[i].req, inflight[i].w)
       IN inflight' = [inflight EXCEPT ![i].pc = out.pc, ![i].w = out.w,
                                       ![i].calls = out.calls]
    /\ UNCHANGED ch
    /\ ConcFrame

StepBody(i) ==
    /\ inflight[i].pc = "body"
    /\ LET out == bodyStep(ch, inflight[i].req, inflight[i].w)
       IN inflight' = [inflight EXCEPT ![i].pc = "done", ![i].w = out.w,
                                       ![i].calls = out.calls]
    /\ ch' = policyAfterServe(ch, inflight[i].req)
    /\ ConcFrame

\* The response is sent and the goroutine ends
End(i) ==
    /\ inflight[i].pc = "done"
    /\ inflight' = [inflight EXCEPT ![i] = Idle]
    /\ UNCHANGED ch
    /\ ConcFrame

ConcNext ==
    \E i \in 1..MaxInflight :
        \/ Begin(i)
        \/ StepOrigin(i)
        \/ StepBody(i)
        \/ End(i)

ConcSpec == ConcInit /\ [][ConcNext]_vars

\* ------------------------------------------------------------------------
\* The custom preflight status.  OptionStatusCode is used by cors_test.go;
\* the option and the field it sets are described by the specification only.
\* ------------------------------------------------------------------------

StatusNoContent == 204

OptionStatusCodeArgs == { StatusNoContent }

\* OptionStatusCode(code): the status of a successfully handled preflight
OptionStatusCode(code) == code

\* A successfully handled preflight ends with the configured status; every
\* other response is as ServeHTTP leaves it.
withOptionStatusCode(c, code, r, out) ==
    IF /\ r.method = corsOptionMethod
       /\ ~c.ignoreOptions
       /\ isOriginAllowed(c, r.origin)
       /\ out.w.writes = 0
    THEN [out EXCEPT !.w = WriteHeader(out.w, code)]
    ELSE out

OptOptionStatusCode ==
    /\ ~built
    /\ nopts < MaxOpts
    /\ \E a \in OptionStatusCodeArgs :
        /\ optionStatusCode' = OptionStatusCode(a)
        /\ given' = given \cup {[name |-> "OptionStatusCode", arg |-> a]}
    /\ nopts' = nopts + 1
    /\ UNCHANGED <<ch, built, applied, lastOrigins, via, req, w, calls, served>>
    /\ UNCHANGED <<inflight, compressed, corsHandled>>

\* One request through the handler the middleware returned last
ServeOptionStatus ==
    /\ built
    /\ applied # <<>>
    /\ ~served
    /\ \E r \in Requests :
        LET out == withOptionStatusCode(ch, optionStatusCode, r, ServeHTTP(ch, r, w))
        IN /\ req' = r
           /\ w' = out.w
           /\ calls' = out.calls
    /\ via' = Len(applied)
    /\ served' = TRUE
    /\ UNCHANGED <<ch, nopts, given, built, applied, lastOrigins>>
    /\ UNCHANGED sideVars

StatusNext ==
    \/ OptOptionStatusCode
    \/ OptAllowedMethods
    \/ OptAllowedOrigins
    \/ OptIgnoreOptions
    \/ CORS
    \/ Apply
    \/ ServeOptionStatus
    \/ NextRequest

StatusSpec == Init /\ [][StatusNext]_vars

\* ------------------------------------------------------------------------
\* compress.go: the compression wrapper
\* ------------------------------------------------------------------------

sGzip == <<"g","z","i","p">>

sDeflate == <<"d","e","f","l","a","t","e">>

sIdentity == <<"i","d","e","n","t","i","t","y">>

\* gzip.DefaultCompression and gzip.BestCompression
DefaultCompression == -1

BestCompression == 9

\* The optional interfaces of net/http a ResponseWriter may implement
Capabilities == { "Flusher", "Hijacker", "CloseNotifier" }

\* The response writers the server or an outer handler may pass in
UnderlyingWriters == [caps : SUBSET Capabilities, contentEncoding : {<<>>}]

AcceptEncodings ==
    { <<>>, sGzip, sDeflate, sIdentity,
      sGzip \o <<",", " ">> \o sDeflate,
      sDeflate \o <<",">> \o sGzip,
      sIdentity \o <<",", " ">> \o sGzip,
      <<" ">> \o sDeflate \o <<" ">> }

CompressLevels == { DefaultCompression, 5, BestCompression + 1 }

\* CompressHandlerLevel: a level out of range becomes the default level
CompressHandlerLevel(level) ==
    IF level < DefaultCompression \/ level > BestCompression
    THEN DefaultCompression
    ELSE level

\* &compressResponseWriter{Writer, ResponseWriter: w, Hijacker: h}.  The
\* struct embeds the interfaces io.Writer, http.ResponseWriter and
\* http.Hijacker: its method set is Write, WriteHeader, Header and the
\* promoted Hijack, whatever the embedded values are.  hijacker is the value
\* of the embedded field: the underlying writer, or nil.
compressResponseWriter(rw, enc, level) ==
    [caps            |-> { "Hijacker" },
     hijacker        |-> IF "Hijacker" \in rw.caps THEN "underlying" ELSE "nil",
     contentEncoding |-> enc,
     pooled          |-> (enc = sGzip /\ level = DefaultCompression)]

\* The loop over the encodings of Accept-Encoding: the first gzip or deflate
\* entry decides, any other entry is skipped.
RECURSIVE selectEncoding(_)
selectEncoding(encs) ==
    IF encs = <<>> THEN <<>>
    ELSE LET enc == TrimSpace(Head(encs))
         IN IF enc = sGzip \/ enc = sDeflate THEN enc
            ELSE selectEncoding(Tail(encs))

\* compressHandler.ServeHTTP: the response writer handed to ch.h
compressServeHTTP(level, acceptEncoding, rw) ==
    LET enc == selectEncoding(Split(acceptEncoding))
    IN IF enc = <<>>
       THEN rw
       ELSE compressResponseWriter(rw, enc, level)

CompressServe ==
    /\ ~compressed.ran
    /\ \E l \in CompressLevels : \E ae \in AcceptEncodings : \E rw \in UnderlyingWriters :
        compressed' = [ran            |-> TRUE,
                       level          |-> CompressHandlerLevel(l),
                       levelGiven     |-> l,
                       acceptEncoding |-> ae,
                       underlying     |-> rw,
                       handed         |-> compressServeHTTP(CompressHandlerLevel(l), ae, rw)]
    /\ UNCHANGED engineVars
    /\ UNCHANGED <<inflight, optionStatusCode, corsHandled>>

CompressNextRequest ==
    /\ compressed.ran
    /\ compressed' = NoRun
    /\ UNCHANGED engineVars
    /\ UNCHANGED <<inflight, optionStatusCode, corsHandled>>

CompressNext ==
    \/ CompressServe
    \/ CompressNextRequest

CompressSpec == Init /\ [][CompressNext]_vars

\* ------------------------------------------------------------------------
\* cors.go: the struct-based CORSHandler
\* ------------------------------------------------------------------------

\* An optional function field of the struct: Nil, or Func(v) for the
\* function that accepts the set or list v, or returns the value v
Nil == <<>>

Func(v) == <<v>>

\* What the function of a field that is not nil accepts or returns
Of(f) == f[1]

nilHandler == "nilHandler"

\* The values of the fields: each optional function is nil or a function,
\* given here by the set or list it accepts or the value it returns.
CORSHandlers ==
    [Handler             : Handlers,
     AllowOrigin         : { Nil, Func({OriginA}) },
     AllowMethod         : { Nil, Func({sGET}) },
     AllowHeaders        : { Nil, Func(<<rawContentType>>) },
     ExposeHeaders       : { Nil, Func(<<sXA>>) },
     SupportsCredentials : { Nil, Func(TRUE) },
     MaxAge              : { Nil, Func(30) }]

CORSHandlerRequests == { r \in Requests : r.origin # corsOriginMatchAll }

\* MatchHeaders(headers...): every requested name, in canonical form, is one
\* of the given names in canonical form
MatchHeaders(headers, reqHeaders) ==
    \A i \in DOMAIN reqHeaders :
        \E j \in DOMAIN headers :
            CanonicalHeaderKey(headers[j]) = CanonicalHeaderKey(reqHeaders[i])

allowOrigin(h, origin) == h.AllowOrigin = Nil \/ origin \in Of(h.AllowOrigin)

allowMethod(h, method) ==
    IF method = <<>> THEN FALSE
    ELSE h.AllowMethod = Nil \/ method \in Of(h.AllowMethod)

allowHeaders(h, headers) ==
    Len(headers) = 0 \/ (h.AllowHeaders # Nil /\ MatchHeaders(Of(h.AllowHeaders), headers))

exposeHeaders(h) == IF h.ExposeHeaders = Nil THEN <<>> ELSE Of(h.ExposeHeaders)

supportsCredentials(h) == IF h.SupportsCredentials = Nil THEN FALSE ELSE Of(h.SupportsCredentials)

maxAge(h) == IF h.MaxAge = Nil THEN 0 ELSE Of(h.MaxAge)

\* w.Header().Del(k)
HeaderDel(rw, k) ==
    [rw EXCEPT !.header = [n \in (DOMAIN rw.header) \ {k} |-> rw.header[n]]]

\* strings.Join(list, ", ")
RECURSIVE JoinCommaSpace(_)
JoinCommaSpace(list) ==
    IF Len(list) = 0 THEN <<>>
    ELSE IF Len(list) = 1 THEN list[1]
    ELSE list[1] \o <<",", " ">> \o JoinCommaSpace(Tail(list))

\* The values of Access-Control-Request-Headers: the header once, or absent
requestHeaderValues(r) == IF r.reqHeaders = <<>> THEN <<>> ELSE << r.reqHeaders >>

\* strings.Split(headerFieldNames, ",") with every field trimmed
splitTrimmed(value) ==
    LET fields == Split(value)
    IN [i \in DOMAIN fields |-> TrimSpace(fields[i])]

\* The tail of the method: Access-Control-Allow-Origin and the credentials
originHeaders(h, rw, origin) ==
    LET w1 == HeaderSet(rw, corsAllowOriginHeader, origin)
    IN IF supportsCredentials(h)
       THEN HeaderSet(w1, corsAllowCredentialsHeader, sTrue)
       ELSE w1

\* The OPTIONS branch.  handler is nilHandler from its first line on, so
\* every return of the branch runs nilHandler in the deferred call.
corsHandlerPreflight(h, r, rw) ==
    LET method == IF r.hasReqMethod THEN r.reqMethod ELSE <<>>
    IN IF ~allowMethod(h, method)
       THEN Invoke(nilHandler, rw)
       ELSE LET values == requestHeaderValues(r)
                headers == IF values = <<>> THEN <<>> ELSE splitTrimmed(values[1])
            IN IF values # <<>> /\ ~allowHeaders(h, headers)
               THEN Invoke(nilHandler, rw)
               ELSE LET w1 == IF maxAge(h) # 0
                              THEN HeaderSet(rw, corsMaxAgeHeader, Itoa(maxAge(h)))
                              ELSE rw
                        w2 == HeaderSet(w1, corsAllowMethodsHeader, method)
                        w3 == HeaderSet(w2, corsAllowHeadersHeader, JoinCommaSpace(headers))
                    IN Invoke(nilHandler, originHeaders(h, w3, r.origin))

\* CORSHandler.ServeHTTP
corsHandlerServeHTTP(h, r, rw) ==
    IF r.origin = "" THEN Invoke(h.Handler, rw)
    ELSE IF ~allowOrigin(h, r.origin) THEN Invoke(h.Handler, rw)
    ELSE LET w0 == HeaderDel(rw, corsAllowOriginHeader)
         IN IF r.method = corsOptionMethod
            THEN corsHandlerPreflight(h, r, w0)
            ELSE LET w1 == IF Len(exposeHeaders(h)) # 0
                           THEN HeaderSet(w0, corsExposeHeadersHeader, exposeHeaders(h))
                           ELSE w0
                 IN Invoke(h.Handler, originHeaders(h, w1, r.origin))

CORSHandlerServe ==
    /\ ~corsHandled.ran
    /\ \E h \in CORSHandlers : \E r \in CORSHandlerRequests :
        LET out == corsHandlerServeHTTP(h, r, NewRecorder)
        IN corsHandled' = [ran |-> TRUE, h |-> h, req |-> r,
                           w |-> out.w, calls |-> out.calls]
    /\ UNCHANGED engineVars
    /\ UNCHANGED <<inflight, optionStatusCode, compressed>>

CORSHandlerNextRequest ==
    /\ corsHandled.ran
    /\ corsHandled' = NoRun
    /\ UNCHANGED engineVars
    /\ UNCHANGED <<inflight, optionStatusCode, compressed>>

CORSHandlerNext ==
    \/ CORSHandlerServe
    \/ CORSHandlerNextRequest

CORSHandlerSpec == Init /\ [][CORSHandlerNext]_vars

\* ------------------------------------------------------------------------
\* Vocabulary of the properties
\* ------------------------------------------------------------------------

InSeq(x, seq) == \E i \in DOMAIN seq : seq[i] = x

CorsHeaderNames ==
    { corsAllowOriginHeader, corsAllowMethodsHeader, corsAllowHeadersHeader,
      corsAllowCredentialsHeader, corsExposeHeadersHeader, corsMaxAgeHeader,
      corsVaryHeader }

ErrorStatuses == { StatusBadRequest, StatusForbidden, StatusMethodNotAllowed }

\* Number of times the wrapped handler ran for the request
WrappedCalls == Len(SelectSeq(calls, LAMBDA h : h \in Handlers))

HeaderPresent(n) == n \in DOMAIN w.header

\* The policy allows the request's Origin: exact match, or wildcard policy
OriginPermitted ==
    /\ req.origin # ""
    /\ \/ InSeq(req.origin, ch.allowedOrigins)
       \/ ch.allowedOrigins = <<corsOriginMatchAll>>

\* An OPTIONS request with an allowed Origin that the engine does not pass on
InterceptedOptions ==
    /\ served
    /\ req.method = corsOptionMethod
    /\ OriginPermitted
    /\ ~ch.ignoreOptions

\* ... that carries Access-Control-Request-Method
InterceptedPreflight == InterceptedOptions /\ req.hasReqMethod

MethodPermitted == InSeq(req.reqMethod, ch.allowedMethods)

\* The requested header names: the comma-separated entries, trimmed and
\* canonicalized, empty entries dropped
RequestedHeaders ==
    LET parts == Split(req.reqHeaders)
    IN SelectSeq([i \in DOMAIN parts |-> CanonicalHeaderKey(TrimSpace(parts[i]))],
                 LAMBDA n : n # <<>>)

Safelisted(n) == InSeq(n, defaultCorsHeaders)

NonSafelistedRequested == SelectSeq(RequestedHeaders, LAMBDA n : ~Safelisted(n))

HeadersPermitted ==
    LET names == RequestedHeaders
    IN \A i \in DOMAIN names :
          Safelisted(names[i]) \/ InSeq(names[i], ch.allowedHeaders)

\* A preflight that passes the method check and the header check
AcceptedPreflight == InterceptedPreflight /\ MethodPermitted /\ HeadersPermitted

\* ------------------------------------------------------------------------
\* Properties
\* ------------------------------------------------------------------------

\* C1: a request without an Origin header gets no CORS response header and no
\* error status, and the wrapped handler runs exactly once.
C1_NoOriginPassesThrough ==
    (served /\ req.origin = "") =>
        /\ DOMAIN w.header \cap CorsHeaderNames = {}
        /\ w.code \notin ErrorStatuses
        /\ WrappedCalls = 1

C3_AcceptedPreflightTerminates ==
    AcceptedPreflight =>
        /\ WrappedCalls = 0
        /\ w.code = StatusOK
        /\ w.writes = 0

C3_Witness ==
    /\ AcceptedPreflight
    /\ ch.h = "h2"
    /\ NonSafelistedRequested # <<>>
    /\ w.code = StatusOK

\* C4: the wrapped handler runs at most once per request, and never for an
\* OPTIONS request the engine intercepts, accepted or rejected.
C4_HandlerAtMostOnce ==
    served =>
        /\ WrappedCalls <= 1
        /\ (req.method = corsOptionMethod /\ ~ch.ignoreOptions) => WrappedCalls = 0

C4_Witness ==
    /\ InterceptedPreflight
    /\ w.code = StatusForbidden
    /\ ch.h = "h2"
    /\ WrappedCalls = 0

\* C5: an intercepted OPTIONS request without Access-Control-Request-Method
\* gets 400 and nothing else, whatever methods were configured.
C5_MissingRequestMethodBadRequest ==
    (InterceptedOptions /\ ~req.hasReqMethod) =>
        /\ w.code = StatusBadRequest
        /\ w.writes = 1
        /\ DOMAIN w.header = {}
        /\ WrappedCalls = 0

C5_Witness ==
    /\ InterceptedOptions
    /\ ~req.hasReqMethod
    /\ \E o \in given : o.name = "AllowedMethods"
    /\ w.code = StatusBadRequest

\* C6: an intercepted preflight whose requested method is neither configured
\* nor safelisted gets 405 and nothing else.
C6_MethodNotAllowed ==
    (InterceptedPreflight /\ ~MethodPermitted /\ ~InSeq(req.reqMethod, defaultCorsMethods)) =>
        /\ w.code = StatusMethodNotAllowed
        /\ w.writes = 1
        /\ DOMAIN w.header = {}
        /\ WrappedCalls = 0

C6_Witness ==
    /\ InterceptedPreflight
    /\ req.reqMethod = sDELETE
    /\ nopts = 0
    /\ w.code = StatusMethodNotAllowed

\* The method tokens given to the AllowedMethods option so far
MethodTokensGiven ==
    UNION { { o.arg[i] : i \in DOMAIN o.arg } : o \in { g \in given : g.name = "AllowedMethods" } }

NormalizedMethod(t) == ToUpper(TrimSpace(t))

\* C7: every method token given to AllowedMethods is, upper-cased and trimmed,
\* among the policy's allowed methods, and a preflight that requests such a
\* (non-safelisted) method gets 200, Access-Control-Allow-Methods equal to the
\* method, and the wrapped handler does not run.
C7_AllowedMethodsConfigured ==
    /\ \A t \in MethodTokensGiven :
          NormalizedMethod(t) # <<>> => InSeq(NormalizedMethod(t), ch.allowedMethods)
    /\ ( /\ InterceptedPreflight
         /\ HeadersPermitted
         /\ \E t \in MethodTokensGiven : NormalizedMethod(t) = req.reqMethod
         /\ ~InSeq(req.reqMethod, defaultCorsMethods) ) =>
            /\ w.code = StatusOK
            /\ HeaderPresent(corsAllowMethodsHeader)
            /\ w.header[corsAllowMethodsHeader] = req.reqMethod
            /\ WrappedCalls = 0

\* C8: an intercepted preflight with an allowed method and a requested header
\* that is neither safelisted nor allowed gets 403; no
\* Access-Control-Allow-Headers (nor any other header) is set, even when other
\* requested headers are allowed, and the wrapped handler does not run.
C8_ForbiddenHeaderAborts ==
    (InterceptedPreflight /\ MethodPermitted /\ ~HeadersPermitted) =>
        /\ w.code = StatusForbidden
        /\ w.writes = 1
        /\ ~HeaderPresent(corsAllowHeadersHeader)
        /\ DOMAIN w.header = {}
        /\ WrappedCalls = 0

C8_Witness ==
    /\ InterceptedPreflight
    /\ MethodPermitted
    /\ req.reqHeaders = rawContentType \o <<","," ">> \o rawXB
    /\ InSeq(sContentType, ch.allowedHeaders)
    /\ w.code = StatusForbidden

\* What C9 says of the response: status 200, and Access-Control-Allow-Headers
\* is the non-safelisted requested names, canonical, comma-joined in request
\* order, or absent when there is none.
AllowHeadersExact ==
    /\ w.code = StatusOK
    /\ LET names == NonSafelistedRequested
       IN IF names = <<>>
          THEN ~HeaderPresent(corsAllowHeadersHeader)
          ELSE /\ HeaderPresent(corsAllowHeadersHeader)
               /\ w.header[corsAllowHeadersHeader] = Join(names)

\* C9 as stated: every intercepted preflight whose requested headers are all
\* allowed or safelisted gets status 200 and the exact Access-Control-Allow-Headers.
C9_AsStated == (InterceptedPreflight /\ HeadersPermitted) => AllowHeadersExact

\* C9 amended: every intercepted preflight whose requested method is allowed
\* and whose requested headers are all allowed or safelisted gets status 200
\* and the exact Access-Control-Allow-Headers.
C9_AllowHeadersExact == AcceptedPreflight => AllowHeadersExact

C9_Witness ==
    /\ AcceptedPreflight
    /\ Len(RequestedHeaders) = 3
    /\ Len(NonSafelistedRequested) = 2
    /\ HeaderPresent(corsAllowHeadersHeader)
    /\ w.header[corsAllowHeadersHeader] = sXA \o <<",">> \o sContentType

ArgsGiven(name) == { o.arg : o \in { g \in given : g.name = name } }

OptionGiven(name) == \E o \in given : o.name = name

\* The responses on which the code reaches the tail of ServeHTTP: a
\* non-OPTIONS request with an allowed Origin, or an accepted preflight
HeadersAssembled ==
    /\ served
    /\ OriginPermitted
    /\ req.method # corsOptionMethod \/ AcceptedPreflight

\* An OPTIONS request with an allowed Origin under IgnoreOptions
IgnoredOptions ==
    /\ served
    /\ req.method = corsOptionMethod
    /\ OriginPermitted
    /\ ch.ignoreOptions

WildcardPolicy == ch.allowedOrigins = <<corsOriginMatchAll>>

\* The number a decimal string denotes
RECURSIVE Atoi(_)
Atoi(str) ==
    IF str = <<>> THEN 0
    ELSE 10 * Atoi(SubSeq(str, 1, Len(str) - 1))
         + (CHOOSE d \in 0..9 : Digits[d + 1] = str[Len(str)])

Min(a, b) == IF a < b THEN a ELSE b

\* C11: on an accepted preflight Access-Control-Max-Age, when present, is
\* min(age, 600) for an age given to MaxAge and lies in 1..600; it is absent
\* when every age given is <= 0 (or none was given), present when every age
\* given is positive, and 600 when the age given is 3500.
C11_MaxAgeClamped ==
    AcceptedPreflight =>
        LET ages == ArgsGiven("MaxAge")
        IN /\ HeaderPresent(corsMaxAgeHeader) =>
                /\ Atoi(w.header[corsMaxAgeHeader]) \in 1..600
                /\ \E a \in ages : Atoi(w.header[corsMaxAgeHeader]) = Min(a, 600)
           /\ (\A a \in ages : a <= 0) => ~HeaderPresent(corsMaxAgeHeader)
           /\ (ages # {} /\ \A a \in ages : a > 0) => HeaderPresent(corsMaxAgeHeader)
           /\ ages = {3500} => /\ HeaderPresent(corsMaxAgeHeader)
                               /\ w.header[corsMaxAgeHeader] = <<"6","0","0">>

C11_Witness ==
    /\ AcceptedPreflight
    /\ ArgsGiven("MaxAge") = {3500}
    /\ HeaderPresent(corsMaxAgeHeader)
    /\ w.header[corsMaxAgeHeader] = <<"6","0","0">>

\* C12: on every response that reaches header assembly
\* Access-Control-Allow-Origin is "*" if the policy is the wildcard and
\* credentials are not required, and the request Origin otherwise; a simple
\* request is then handed to the wrapped handler.
C12_AllowOriginStarOrLiteral ==
    HeadersAssembled =>
        /\ HeaderPresent(corsAllowOriginHeader)
        /\ w.header[corsAllowOriginHeader] =
              IF WildcardPolicy /\ ~ch.allowCredentials
              THEN corsOriginMatchAll ELSE req.origin
        /\ req.method # corsOptionMethod => WrappedCalls = 1

\* C13: no response carries both Access-Control-Allow-Origin: * and
\* Access-Control-Allow-Credentials: true.
C13_NoStarWithCredentials ==
    served =>
        ~ ( /\ HeaderPresent(corsAllowOriginHeader)
            /\ w.header[corsAllowOriginHeader] = corsOriginMatchAll
            /\ HeaderPresent(corsAllowCredentialsHeader)
            /\ w.header[corsAllowCredentialsHeader] = sTrue )

\* What C14 says of a response under a policy: Vary: Origin with two or more
\* explicit origins on the responses in scope, and never a Vary header with a
\* single origin or the wildcard.
VaryFollowsOrigins(inScope) ==
    /\ (inScope /\ Len(ch.allowedOrigins) >= 2) =>
          /\ HeaderPresent(corsVaryHeader)
          /\ w.header[corsVaryHeader] = corsOriginHeader
    /\ (served /\ Len(ch.allowedOrigins) <= 1) => ~HeaderPresent(corsVaryHeader)

\* C14 as stated: with two or more explicit origins every response to a
\* request carrying an allowed Origin has Vary: Origin; with a single origin
\* or the wildcard no response has a Vary header.
C14_AsStated == VaryFollowsOrigins(served /\ OriginPermitted)

\* C14 amended: with two or more explicit origins every response on which the
\* engine assembles headers (non-OPTIONS request with an allowed Origin, or
\* accepted preflight) has Vary: Origin; with a single origin or the wildcard
\* no response has a Vary header.
C14_VaryOnAssembledHeaders == VaryFollowsOrigins(HeadersAssembled)

C14_Witness ==
    /\ AcceptedPreflight
    /\ ch.allowedOrigins = <<OriginA, OriginB>>
    /\ HeaderPresent(corsVaryHeader)
    /\ w.header[corsVaryHeader] = corsOriginHeader

\* What C15 says of a response: Access-Control-Allow-Credentials: true on the
\* responses in scope when AllowCredentials was configured, and on no response
\* when it was not.
CredentialsFollowPolicy(inScope) ==
    /\ ch.allowCredentials <=> OptionGiven("AllowCredentials")
    /\ (inScope /\ OptionGiven("AllowCredentials")) =>
          /\ HeaderPresent(corsAllowCredentialsHeader)
          /\ w.header[corsAllowCredentialsHeader] = sTrue
    /\ (served /\ ~OptionGiven("AllowCredentials")) =>
          ~HeaderPresent(corsAllowCredentialsHeader)

\* C15 as stated: Access-Control-Allow-Credentials: true is on every response
\* of a pass-through (non-OPTIONS, or OPTIONS under IgnoreOptions) or of a
\* successful preflight when AllowCredentials was configured, and on no
\* response when it was not.
C15_AsStated == CredentialsFollowPolicy(HeadersAssembled \/ IgnoredOptions)

\* C15 amended: Access-Control-Allow-Credentials: true is on every response
\* to a non-OPTIONS request with an allowed Origin and on every successful
\* preflight when AllowCredentials was configured (an OPTIONS request passed
\* on under IgnoreOptions gets none), and on no response when it was not.
C15_CredentialsOnAssembledHeaders == CredentialsFollowPolicy(HeadersAssembled)

C15_Witness ==
    /\ AcceptedPreflight
    /\ OptionGiven("AllowCredentials")
    /\ HeaderPresent(corsAllowCredentialsHeader)
    /\ w.header[corsAllowCredentialsHeader] = sTrue

\* ------------------------------------------------------------------------
\* Properties of IgnoreOptions
\* ------------------------------------------------------------------------

PreflightHeaderNames ==
    { corsAllowMethodsHeader, corsAllowHeadersHeader, corsMaxAgeHeader }

\* The status a handler leaves on a fresh recorder
StatusLeftBy(h) == IF HandlerStatus(h) # 0 THEN HandlerStatus(h) ELSE StatusOK

\* What C16 says of an OPTIONS request in scope: the wrapped handler runs, its
\* status is the response status, and no preflight header is set.
ForwardedUntouched(inScope) ==
    inScope =>
        /\ WrappedCalls = 1
        /\ calls = <<ch.h>>
        /\ w.code = StatusLeftBy(ch.h)
        /\ DOMAIN w.header \cap PreflightHeaderNames = {}

\* C16 as stated: under IgnoreOptions every OPTIONS request is forwarded to
\* the wrapped handler, whose status is the response status, with no
\* preflight header and no 400/403/405 of the engine.
C16_AsStated ==
    ForwardedUntouched(served /\ req.method = corsOptionMethod /\ ch.ignoreOptions)

\* C17 as stated: an OPTIONS request with an allowed Origin under
\* IgnoreOptions gets Access-Control-Expose-Headers (if configured),
\* Access-Control-Allow-Credentials (if configured), Vary: Origin (if more
\* than one explicit origin) and Access-Control-Allow-Origin, as a non-OPTIONS
\* request does.
C17_AsStated ==
    IgnoredOptions =>
        /\ HeaderPresent(corsAllowOriginHeader)
        /\ w.header[corsAllowOriginHeader] = req.origin
        /\ ch.exposedHeaders # <<>> => HeaderPresent(corsExposeHeadersHeader)
        /\ ch.allowCredentials => HeaderPresent(corsAllowCredentialsHeader)
        /\ Len(ch.allowedOrigins) > 1 => HeaderPresent(corsVaryHeader)

\* C17 amended: an OPTIONS request with an allowed Origin under IgnoreOptions
\* is passed to the wrapped handler as it is: the engine sets no response
\* header at all, and the handler runs once.
C17_IgnoredOptionsGetNoHeader ==
    IgnoredOptions =>
        /\ DOMAIN w.header = {}
        /\ WrappedCalls = 1

C17_Witness ==
    /\ IgnoredOptions
    /\ ch.allowCredentials
    /\ DOMAIN w.header = {}
    /\ WrappedCalls = 1

\* ------------------------------------------------------------------------
\* Properties of exposed headers, shared middleware and origin options
\* ------------------------------------------------------------------------

C19_ServesOwnHandler ==
    served =>
        \A i \in DOMAIN calls : calls[i] \in Handlers => calls[i] = applied[via]

\* Some AllowedOrigins option applied so far contained the wildcard
WildcardEverGiven ==
    \E a \in ArgsGiven("AllowedOrigins") : InSeq(corsOriginMatchAll, a)

\* The latest AllowedOrigins option applied contained the wildcard
WildcardGivenLast ==
    \E a \in lastOrigins : InSeq(corsOriginMatchAll, a)

\* What C20 says of a policy whose options supplied the wildcard: the origin
\* set is wildcard-only and every origin is allowed.
WildcardWins(supplied) ==
    supplied =>
        /\ WildcardPolicy
        /\ (served /\ req.origin # "" /\ req.method # corsOptionMethod) =>
              /\ WrappedCalls = 1
              /\ w.code # StatusBadRequest
              /\ HeaderPresent(corsAllowOriginHeader)

\* C20 as stated: if any AllowedOrigins option applied so far contained the
\* wildcard, the origin set is wildcard-only and every origin is allowed.
C20_AsStated == WildcardWins(WildcardEverGiven)

\* C20 amended: if the latest AllowedOrigins option applied contains the
\* wildcard, in any position, the origin set is wildcard-only and every origin
\* is allowed; an AllowedOrigins option without the wildcard applied after it
\* replaces the set.
C20_LastWildcardWins == WildcardWins(WildcardGivenLast)

C20_Witness ==
    /\ served
    /\ lastOrigins = { <<OriginA, corsOriginMatchAll>> }
    /\ <<OriginA, OriginB>> \in ArgsGiven("AllowedOrigins")
    /\ WildcardPolicy
    /\ req.origin = OriginC
    /\ req.method = sGET
    /\ WrappedCalls = 1

\* ------------------------------------------------------------------------
\* Properties of rejections and of the committed policy
\* ------------------------------------------------------------------------

\* C22: an OPTIONS request carrying Access-Control-Request-Method whose
\* Origin the policy does not allow, OPTIONS not ignored, is not passed to
\* the wrapped handler and is answered 200.
C22_RejectedOriginPreflightOk ==
    ( /\ served
      /\ req.method = corsOptionMethod
      /\ req.hasReqMethod
      /\ req.origin # ""
      /\ ~OriginPermitted
      /\ ~ch.ignoreOptions ) =>
        /\ WrappedCalls = 0
        /\ w.code = StatusOK

\* Every name of a list in canonical header form
CanonicalAll(names) == [i \in DOMAIN names |-> CanonicalHeaderKey(names[i])]

\* C24: the names given to ExposedHeaders are canonicalized before they are
\* emitted: ExposedHeaders(["X-CORS-TEST", ...]) yields
\* Access-Control-Expose-Headers: X-Cors-Test,... on a simple CORS response.
C24_ExposedHeadersCanonical ==
    (served /\ req.method # corsOptionMethod /\ OriginPermitted) =>
        \A a \in ArgsGiven("ExposedHeaders") :
            /\ HeaderPresent(corsExposeHeadersHeader)
            /\ w.header[corsExposeHeadersHeader] = Join(CanonicalAll(a))

\* C27: the committed allowedOrigins is either exactly the wildcard or a
\* list without the wildcard.
C27_WildcardExclusive ==
    WildcardPolicy \/ ~InSeq(corsOriginMatchAll, ch.allowedOrigins)

C27_Witness ==
    /\ lastOrigins = { <<OriginA, corsOriginMatchAll>> }
    /\ WildcardPolicy
    /\ ~InSeq(OriginA, ch.allowedOrigins)

NoDuplicates(seq) ==
    \A i, j \in DOMAIN seq : seq[i] = seq[j] => i = j

\* C28: allowedHeaders holds only canonicalized, non-empty header names,
\* none of them twice.
C28_AllowedHeadersNormalized ==
    /\ \A i \in DOMAIN ch.allowedHeaders :
          /\ ch.allowedHeaders[i] # <<>>
          /\ CanonicalHeaderKey(ch.allowedHeaders[i]) = ch.allowedHeaders[i]
    /\ NoDuplicates(ch.allowedHeaders)

\* C29: a response the engine rejects with 400, 403 or 405 has exactly one
\* status written, none of the CORS response headers, and the wrapped handler
\* has not run.
C29_RejectionClean ==
    (served /\ w.code \in ErrorStatuses) =>
        /\ w.writes = 1
        /\ DOMAIN w.header \cap CorsHeaderNames = {}
        /\ WrappedCalls = 0

C29_Witness ==
    /\ InterceptedPreflight
    /\ w.code = StatusMethodNotAllowed
    /\ ch.allowCredentials
    /\ ch.h = "h2"
    /\ w.writes = 1
    /\ DOMAIN w.header = {}
    /\ WrappedCalls = 0

\* The fields of the policy a step changes
ChangedFields == { f \in DOMAIN ch : ch'[f] # ch[f] }

\* C30: each option changes only its own field of the policy: AllowedMethods
\* only allowedMethods, AllowedHeaders only allowedHeaders, AllowedOrigins
\* only allowedOrigins, ExposedHeaders only exposedHeaders, MaxAge only
\* maxAge, IgnoreOptions only ignoreOptions, AllowCredentials only
\* allowCredentials.
C30_OptionChangesOwnField ==
    [][ /\ OptAllowedMethods => ChangedFields \subseteq {"allowedMethods"}
        /\ OptAllowedHeaders => ChangedFields \subseteq {"allowedHeaders"}
        /\ OptAllowedOrigins => ChangedFields \subseteq {"allowedOrigins"}
        /\ OptExposedHeaders => ChangedFields \subseteq {"exposedHeaders"}
        /\ OptMaxAge => ChangedFields \subseteq {"maxAge"}
        /\ OptIgnoreOptions => ChangedFields \subseteq {"ignoreOptions"}
        /\ OptAllowCredentials => ChangedFields \subseteq {"allowCredentials"}
      ]_vars

\* ------------------------------------------------------------------------
\* Properties of concurrent requests
\* ------------------------------------------------------------------------

\* The outcome of handling the request of slot i alone, under the policy as
\* it was when the request arrived
Alone(i) == ServeHTTP(inflight[i].policy0, inflight[i].req, NewRecorder)

\* C21: request handling never changes the policy (while a request is in
\* flight the policy is what it was when the request arrived), and whatever
\* the interleaving of the requests in flight each finished request has the
\* status, headers and handler calls it has when handled alone.
C21_RequestsIsolated ==
    \A i \in 1..MaxInflight :
        /\ inflight[i].pc # "idle" => ch = inflight[i].policy0
        /\ inflight[i].pc = "done" =>
              /\ inflight[i].w = Alone(i).w
              /\ inflight[i].calls = Alone(i).calls

C21_Witness ==
    /\ inflight[1].pc = "done"
    /\ inflight[1].req.method = corsOptionMethod
    /\ inflight[1].calls = <<NoopHandler>>
    /\ inflight[2].pc = "done"
    /\ inflight[2].req.method = sGET
    /\ inflight[2].calls = <<"h2">>
    /\ inflight[2].w.code = StatusTeapot

\* ------------------------------------------------------------------------
\* Properties of the custom preflight status
\* ------------------------------------------------------------------------

C25_CapabilitiesPreserved ==
    ( /\ compressed.ran
      /\ compressed.handed.contentEncoding \in { sGzip, sDeflate } ) =>
        \A cap \in Capabilities :
            cap \in compressed.handed.caps <=> cap \in compressed.underlying.caps

\* ------------------------------------------------------------------------
\* Properties of the struct-based CORSHandler
\* ------------------------------------------------------------------------

\* The names a request asks for in Access-Control-Request-Headers
NamesRequested(r) ==
    IF r.reqHeaders = <<>> THEN <<>>
    ELSE LET fields == Split(r.reqHeaders)
         IN [i \in DOMAIN fields |-> CanonicalHeaderKey(TrimSpace(fields[i]))]

\* The request of the last run does not meet the CORS criteria of the
\* handler: its Origin is rejected by AllowOrigin, or it is an OPTIONS request
\* whose Access-Control-Request-Method is missing or rejected by AllowMethod
\* or whose requested headers are rejected by AllowHeaders.
FailsCriteria ==
    LET h == corsHandled.h
        r == corsHandled.req
    IN /\ r.origin # ""
       /\ \/ h.AllowOrigin # Nil /\ r.origin \notin Of(h.AllowOrigin)
          \/ /\ r.method = corsOptionMethod
             /\ \/ ~r.hasReqMethod
                \/ h.AllowMethod # Nil /\ r.reqMethod \notin Of(h.AllowMethod)
                \/ /\ r.reqHeaders # <<>>
                   /\ \/ h.AllowHeaders = Nil
                      \/ \E i \in DOMAIN NamesRequested(r) :
                            \A j \in DOMAIN Of(h.AllowHeaders) :
                                CanonicalHeaderKey(Of(h.AllowHeaders)[j]) # NamesRequested(r)[i]

\* C26: when a request does not meet the CORS criteria the CORSHandler sets
\* no header on the response and the wrapped Handler is still called.
C26_FailedCriteriaPassThrough ==
    (corsHandled.ran /\ FailsCriteria) =>
        /\ DOMAIN corsHandled.w.header = {}
        /\ corsHandled.calls = << corsHandled.h.Handler >>

====
